---- MODULE Spec2Model ----
(***************************************************************************)
(* The background-job subsystem for media-mix-model (MMM) training         *)
(*   POST /mmm/train      main.py mmm_train_endpoint                       *)
(*   GET  /jobs/{job_id}  main.py job_status_endpoint                      *)
(*   GET  /mmm/plots      main.py get_mmm_plots                            *)
(*   the RQ worker        workers/mmm_worker.py                            *)
(*   the training routine agents/data_science_agent.py                     *)
(*                        train_and_cache_mmm_job / train_and_cache_mmm    *)
(*                                                                         *)
(* The broker (Redis + RQ) is the library the code calls; its behaviour    *)
(* at each call site is modelled as the library behaves: enqueue stores a  *)
(* job with status queued and appends its id to the queue; a worker pops   *)
(* the head atomically, marks the job started, runs the function, and      *)
(* marks it finished with the return value or failed with the traceback;   *)
(* Job.fetch raises NoSuchJobError for an id the broker does not hold.     *)
(*                                                                         *)
(* Around it, the request-per-call endpoints:                              *)
(*   POST /generate-creative, /analyze-brand, /analyze    (AgentSpec)      *)
(*   the image library, POST and GET /library/...         (LibrarySpec)    *)
(*   the socket /ws/seo-analysis                          (WsSpec)         *)
(*                                                                         *)
(* Strings that the code takes apart (file names, project ids) are         *)
(* sequences of tokens, with "/" and "." as tokens of their own.           *)
(***************************************************************************)
EXTENDS Integers, Sequences, FiniteSets, TLC

\* ------------------------------------------------------------------ bounds
MaxJobs == 2
NumWorkers == 2
MaxClock == 2
MaxColumns == 3
MaxImages == 3
\* clock ticks per second: strftime("%Y%m%d%H%M%S") drops what is below a second
TicksPerSecond == 2

JobIds == 1..MaxJobs
Workers == 1..NumWorkers

\* ----------------------------------------------------------- configuration
\* main.py:22  GOOGLE_PROJECT = os.getenv("GOOGLE_CLOUD_PROJECT", "")
GOOGLE_PROJECT == <<>>

\* Python's `a or b` on strings: the empty string (and None) is falsy.
Or(a, b) == IF a # <<>> THEN a ELSE b

\* main.py:27  PROJECT_ID = GOOGLE_PROJECT or "braidai"
PROJECT_ID == Or(GOOGLE_PROJECT, <<"braidai">>)

\* The values a request may give the optional project_id form field:
\* absent (None), or a project id.
NoOverride == <<>>
ProjectOverrides == { NoOverride, <<"acme", ".", "io">> }

\* ------------------------------------------------------ column inference
\* A column of a table: its name, and whether its dtype is a number
\* (select_dtypes(include="number")); a column that is not is text. A name is
\* a sequence of tokens; the suffix "_spend" is a token of its own.
Column(name, numeric) == [name |-> name, numeric |-> numeric]

\* str.lower() on a token
LowerToken(t) ==
  CASE t = "Sales" -> "sales"
    [] t = "_SPEND" -> "_spend"
    [] OTHER -> t

\* str.lower()
Lower(s) == [i \in 1..Len(s) |-> LowerToken(s[i])]

\* str.endswith(suffix)
EndsWith(s, suffix) ==
  /\ Len(s) >= Len(suffix)
  /\ SubSeq(s, Len(s) - Len(suffix) + 1, Len(s)) = suffix

\* target_col = None; Python's `if target_col` and `if not target_col`
NoColumn == <<>>

\* data_science_agent.py:119
TargetCandidates == << <<"sales">>, <<"revenue">>, <<"y">>, <<"target">> >>

RECURSIVE FirstNamed(_, _, _)
\* data_science_agent.py:120-123: the inner loop over df.columns from column
\* i on, for one candidate name.
FirstNamed(cols, cand, i) ==
  IF i > Len(cols) THEN NoColumn
  ELSE IF Lower(cols[i].name) = cand THEN cols[i].name
  ELSE FirstNamed(cols, cand, i + 1)

RECURSIVE NamedTarget_ColumnOrder(_, _)
\* A search that walks the columns first and accepts any candidate name.
NamedTarget_ColumnOrder(cols, c) ==
  IF c > Len(cols) THEN NoColumn
  ELSE IF \E k \in 1..Len(TargetCandidates) : Lower(cols[c].name) = TargetCandidates[k]
       THEN cols[c].name
       ELSE NamedTarget_ColumnOrder(cols, c + 1)

RECURSIVE NamedTarget(_, _)
\* data_science_agent.py:119-125: the outer loop over the candidate names
\* from candidate c on; it ends with the first candidate that names a column.
NamedTarget(cols, c) ==
  IF c > Len(TargetCandidates) THEN NoColumn
  ELSE LET col == FirstNamed(cols, TargetCandidates[c], 1)
       IN IF col # NoColumn THEN col ELSE NamedTarget(cols, c + 1)

\* The names of the columns of a table, in column order.
Names(cols) == [i \in 1..Len(cols) |-> cols[i].name]

\* df.select_dtypes(include="number").columns
NumericCols(cols) == Names(SelectSeq(cols, LAMBDA c : c.numeric))

\* [c for c in names if c != col]
Without(names, col) == SelectSeq(names, LAMBDA c : c # col)

\* data_science_agent.py:134-137
SpendCols(cols, target_col) ==
  Without(SelectSeq(Names(cols), LAMBDA c : EndsWith(Lower(c), <<"_spend">>)), target_col)

\* Media columns without the fallback to the numeric columns.
MediaCols_NoFallback(cols, target_col) == SpendCols(cols, target_col)

\* data_science_agent.py:134-140
MediaCols(cols, target_col) ==
  IF SpendCols(cols, target_col) # <<>>
  THEN SpendCols(cols, target_col)
  ELSE Without(NumericCols(cols), target_col)

\* Covariates that leave out the media columns and keep the target.
ExtraCols_KeepsTarget(cols, target_col, media_cols) ==
  SelectSeq(NumericCols(cols), LAMBDA c : \A i \in 1..Len(media_cols) : media_cols[i] # c)

\* data_science_agent.py:142-145
ExtraCols(cols, target_col, media_cols) ==
  SelectSeq(NumericCols(cols),
            LAMBDA c : c # target_col /\ \A i \in 1..Len(media_cols) : media_cols[i] # c)

NoNumericColumns == [error |-> "No numeric columns found for target."]

\* data_science_agent.py:117-145: the roles of the columns of df, or the
\* error the routine returns.
ColumnRoles(cols) ==
  LET named == NamedTarget(cols, 1)
      numeric_cols == NumericCols(cols)
      target_col == IF named # NoColumn THEN named
                    ELSE IF numeric_cols = <<>> THEN NoColumn
                    ELSE numeric_cols[1]
      media_cols == MediaCols(cols, target_col)
  IN IF named = NoColumn /\ numeric_cols = <<>>
     THEN NoNumericColumns
     ELSE [ error |-> "", target_col |-> target_col, media_cols |-> media_cols,
            extra_cols |-> ExtraCols(cols, target_col, media_cols) ]

\* The column of a table that has the name.
ColumnNamed(cols, name) == CHOOSE c \in { cols[i] : i \in 1..Len(cols) } : c.name = name

\* data_science_agent.py:148-149: df[media_cols] and df[target_col] are
\* turned into arrays of float; a text column cannot be.
ToNumpyRaises(cols, r) ==
  \/ ~ColumnNamed(cols, r.target_col).numeric
  \/ \E i \in 1..Len(r.media_cols) : ~ColumnNamed(cols, r.media_cols[i]).numeric

\* The roles before train_and_cache_mmm has inferred them.
NotRun == [error |-> "not run"]

\* The tables the column inference is checked on: up to MaxColumns columns
\* with different names, each a number column or a text column.
ColumnNames ==
  { <<"sales">>, <<"Sales">>, <<"y">>, <<"price">>, <<"notes">>, <<"ad", "spend">>,
    <<"tv", "_spend">>, <<"radio", "_spend">>, <<"search", "_SPEND">> }

Tables ==
  UNION { { t \in [1..n -> { Column(c, b) : c \in ColumnNames, b \in BOOLEAN }] :
              \A i, k \in 1..n : i # k => t[i].name # t[k].name } : n \in 0..MaxColumns }

\* ----------------------------------------------------------------- datasets
\* The dataset files a request may name, and what the training routine meets
\* on each: DATA_DIR holds no such file (pd.read_csv raises), a table of text
\* columns none of which is named like a target, a table of text columns one
\* of which is named sales (turning it into floats raises), a table on which
\* plotting raises, and two tables that train.
Datasets ==
  { <<"missing", ".", "csv">>, <<"text", ".", "csv">>, <<"badfit", ".", "csv">>,
    <<"badplot", ".", "csv">>, <<"a", ".", "csv">>, <<"b", ".", "csv">> }

FileExists(ds) == ds # <<"missing", ".", "csv">>

\* What pd.read_csv makes of the file (data_science_agent.py:253).
Columns(ds) ==
  CASE ds = <<"text", ".", "csv">> ->
         << Column(<<"notes">>, FALSE), Column(<<"region">>, FALSE) >>
    [] ds = <<"badfit", ".", "csv">> ->
         << Column(<<"region">>, FALSE), Column(<<"Sales">>, FALSE) >>
    [] ds = <<"badplot", ".", "csv">> ->
         << Column(<<"sales">>, TRUE), Column(<<"tv", "_spend">>, TRUE) >>
    [] ds = <<"a", ".", "csv">> ->
         << Column(<<"sales">>, TRUE), Column(<<"tv", "_spend">>, TRUE),
            Column(<<"radio", "_spend">>, TRUE) >>
    [] ds = <<"b", ".", "csv">> ->
         << Column(<<"week">>, FALSE), Column(<<"price">>, TRUE),
            Column(<<"revenue">>, TRUE), Column(<<"tv", "_spend">>, TRUE) >>
    [] OTHER -> <<>>

\* data_science_agent.py:117-145 on the table of each dataset file
DatasetRoles == [ds \in Datasets |-> ColumnRoles(Columns(ds))]

\* data_science_agent.py:128-130
HasTarget(ds) == DatasetRoles[ds] # NoNumericColumns

\* data_science_agent.py:147-178: what raises between the column inference
\* and the end of mmm.fit.
FitRaises(ds) == HasTarget(ds) /\ ToNumpyRaises(Columns(ds), DatasetRoles[ds])

PlotRaises(ds) == ds = <<"badplot", ".", "csv">>

\* The requests POST /mmm/train is given: every dataset without an override,
\* and one dataset with the project_id override.
TrainRequests ==
  { [dataset_filename |-> d, project_id |-> NoOverride] : d \in Datasets }
  \cup { [dataset_filename |-> <<"a", ".", "csv">>, project_id |-> p] : p \in ProjectOverrides }

\* ------------------------------------------------------------ path helpers
RECURSIVE LastIndexOf(_, _, _)
\* the largest i <= n with s[i] = tok, or 0
LastIndexOf(s, tok, n) ==
  IF n = 0 THEN 0
  ELSE IF s[n] = tok THEN n
  ELSE LastIndexOf(s, tok, n - 1)

\* os.path.basename: what follows the last "/"
Basename(p) ==
  LET i == LastIndexOf(p, "/", Len(p))
  IN SubSeq(p, i + 1, Len(p))

\* os.path.splitext(p)[0]: p without its extension; the extension starts at
\* the last "." of the last path component, unless that "." leads it.
SplitextRoot(p) ==
  LET sep == LastIndexOf(p, "/", Len(p))
      dot == LastIndexOf(p, ".", Len(p))
  IN IF dot > sep + 1 THEN SubSeq(p, 1, dot - 1) ELSE p

\* data_science_agent.py:182
\*   dataset_name = os.path.splitext(os.path.basename(str(project_id or "dataset")))[0]
DatasetName(project_id) == SplitextRoot(Basename(Or(project_id, <<"dataset">>)))

\* data_science_agent.py:183  datetime.utcnow().strftime("%Y%m%d%H%M%S")
Timestamp(clock) == clock \div TicksPerSecond

\* data_science_agent.py:185  os.path.join(data_dir, "models", dataset_name, timestamp)
ModelDir(project_id, clock) == << DatasetName(project_id), Timestamp(clock) >>

\* The files of an artifact directory, in the order the routine writes them
\* (data_science_agent.py:189-229).
ArtifactFiles ==
  << <<"model", ".", "pkl">>, <<"diagnostics", ".", "json">>, <<"posterior", ".", "png">>,
     <<"response_curves", ".", "png">>, <<"media_effect", ".", "png">>, <<"roi", ".", "png">> >>
\* the first file written by a plotting call (data_science_agent.py:208)
FirstPlot == 3

\* data_science_agent.py:207-229: the keys of plot_paths and the file of each
PlotKeys == { "posterior", "response_curves", "media_effect", "roi" }
PlotFile(key) == << key, ".", "png" >>

\* A directory below DATA_DIR/models is the sequence of its path components.
\* os.path.join leaves out a component that is empty.
NonEmpty(parts) == SelectSeq(parts, LAMBDA c : c # <<>>)

\* data_science_agent.py:185: the components of model_dir below DATA_DIR/models
DirPath(dir) == NonEmpty(<< dir[1], << ToString(dir[2]) >> >>)

RECURSIVE JoinWith(_, _)
\* sep.join(parts)
JoinWith(parts, sep) ==
  IF parts = <<>> THEN <<>>
  ELSE IF Len(parts) = 1 THEN parts[1]
  ELSE parts[1] \o << sep >> \o JoinWith(Tail(parts), sep)

\* os.path.relpath(os.path.join(model_dir, fname), data_dir), with model_dir
\* the directory of components path below data_dir/models
RelPath(path, fname) == JoinWith(<< <<"models">> >> \o path \o << fname >>, "/")

\* A model id that joins the dataset name and the timestamp with "_".
ModelId_Underscore(dir) == dir[1] \o << "_", ToString(dir[2]) >>

\* data_science_agent.py:235  f"{dataset_name}/{timestamp}"
ModelId(dir) == dir[1] \o << "/", ToString(dir[2]) >>

\* ------------------------------------------------------------------ values
None == [kind |-> "None"]

\* str(x) as job_status_endpoint applies it to job.exc_info: str(None) is the
\* string "None", never null.
Str(x) == IF x = None THEN [kind |-> "str", text |-> "None"] ELSE x

ErrorPayload(msg) == [kind |-> "payload", error |-> msg]
\* data_science_agent.py:233-238: the model id and, by plot key, the path of
\* the plot file relative to DATA_DIR (the diagnostics are left out).
ModelPayload(dir) ==
  [ kind |-> "payload", error |-> "", model_id |-> ModelId(dir),
    plots |-> [k \in PlotKeys |-> RelPath(DirPath(dir), PlotFile(k))] ]
Traceback(msg) == [kind |-> "str", text |-> msg]

NoJob == [status |-> "absent"]
NoResponse == [op |-> "none"]

VARIABLES
  mmm_queue,   \* main.py:71  the API's queue handle: "Queue", or "None"
  mmm_lib,     \* whether lightweight_mmm can be imported by the worker
  jobs,        \* the broker's job records, by job id
  queue,       \* the broker's queue "mmm": job ids, head first
  issued,      \* how many job ids enqueue has issued
  workers,     \* each worker process: where it is in the job it runs
  dirs,        \* the directories under DATA_DIR/models
  files,       \* the files under DATA_DIR/models: [dir, name, by]
  now,         \* the clock, in ticks
  resp,        \* the last response of the API
  executions,  \* how many times each job's function has been called
  df,          \* the table train_and_cache_mmm is called with
  roles,       \* its locals target_col, media_cols, extra_cols, or its error
  vertex,      \* the project and location vertexai.init was last called with
  MODEL,       \* creative_agent.py:8  _MODEL, the cached image model client
  library,     \* the files under IMAGE_LIBRARY_DIR: [dir, name, mtime]
  library_env, \* what the image library endpoints find installed and configured
  ws           \* a /ws/seo-analysis session

vars ==
  << mmm_queue, mmm_lib, jobs, queue, issued, workers, dirs, files, now, resp,
     executions, df, roles, vertex, MODEL, library, library_env, ws >>

\* The state of the Vertex SDK and of the creative agent in the API process.
llmVars == << vertex, MODEL >>

\* The image library and its environment.
libraryVars == << library, library_env >>

\* What the MMM endpoints, the workers and the training routine work on,
\* without the last response.
mmmVars ==
  << mmm_queue, mmm_lib, jobs, queue, issued, workers, dirs, files, now, executions,
     df, roles >>

\* main.py:23, 28  VERTEX_LOCATION = os.getenv("VERTEX_LOCATION", "us-central1")
LOCATION == <<"us-central1">>

\* The Vertex SDK after vertexai.init(project=..., location=...).
VertexInit(project, location) == [kind |-> "vertex", project |-> project, location |-> location]

\* main.py:32-39: the SDK is initialised at start-up when GOOGLE_CLOUD_PROJECT
\* is set.
VertexAtStartup == IF GOOGLE_PROJECT # <<>> THEN VertexInit(GOOGLE_PROJECT, LOCATION) ELSE None

\* storage.py:26 and main.py:50-56, 101: the storage backend, whether
\* library.storage and library.image_ops (Pillow) import, whether the
\* installed Pillow still has ImageDraw.textsize (image_ops.py:63), and
\* whether IMAGE_LIBRARY_DIR is a directory before anything is saved.
LibraryEnv(backend, imports, textsize, root) ==
  [backend |-> backend, imports |-> imports, textsize |-> textsize, root |-> root]

\* No session: no client has connected to /ws/seo-analysis.
NoSession == [pc |-> "none"]

\* A worker process: where it is in the job function (pc), the job it runs,
\* when it called the function (started), and the routine's locals model_dir
\* and the index of the next artifact file (next).
Idle == [pc |-> "idle", job |-> 0, started |-> 0, model_dir |-> <<>>, next |-> 0]

\* State after the API module and the workers are loaded.
\* main.py:68-78: mmm_queue is a Queue, or None when redis/rq cannot be
\* imported or the initialisation raises.
\* data_science_agent.py:108-114: lightweight_mmm is importable in the worker's
\* environment, or it is not.
Init ==
  /\ mmm_queue \in { "Queue", "None" }
  /\ mmm_lib \in BOOLEAN
  /\ jobs = [j \in JobIds |-> NoJob]
  /\ queue = <<>>
  /\ issued = 0
  /\ workers = [w \in Workers |-> Idle]
  /\ dirs = {}
  /\ files = {}
  /\ now = 0
  /\ resp = NoResponse
  /\ executions = [j \in JobIds |-> 0]
  /\ df = <<>>
  /\ roles = NotRun
  /\ vertex = VertexAtStartup
  /\ MODEL = None
  /\ library = {}
  /\ library_env = LibraryEnv("local", TRUE, TRUE, TRUE)
  /\ ws = NoSession

\* ------------------------------------------------------------- the broker
\* The broker's record of job j, or NoJob for an id it does not hold.
Lookup(j) == IF j \in JobIds THEN jobs[j] ELSE NoJob

\* main.py:322-330  mmm_queue.enqueue(train_and_cache_mmm_job, kwargs={...}):
\* the job is stored with status queued and its id is appended to the queue.
\* The kwargs location and model_name are carried too; the training routine
\* never reads them (data_science_agent.py:94-96).
NewJob(dataset_filename, project_id) ==
  [ status |-> "queued",
    dataset_filename |-> dataset_filename,
    project_id |-> Or(project_id, PROJECT_ID),
    result |-> None,
    exc_info |-> None ]

\* A dequeue that reads the head and leaves it on the queue.
QueueAfterPop_Peek(q) == q

\* mmm_worker.py:27  Worker([q]).work(): the worker takes the head of the
\* queue; the pop is one atomic broker command.
QueueAfterPop(q) == Tail(q)

\* mmm_worker.py:27: the job the worker is about to run is marked started.
Started(job) == [job EXCEPT !.status = "started"]

\* A worker that stores the return value and forgets to mark the job finished.
OnReturn_StillStarted(job, rv) == [job EXCEPT !.result = rv]

\* mmm_worker.py:27: the function returned rv: the job is finished and holds
\* the return value as its result.
OnReturn(job, rv) == [job EXCEPT !.status = "finished", !.result = rv]

\* mmm_worker.py:27: the function raised: the job is failed and holds the
\* traceback; the enqueue of main.py:322 asks for no retry, so the job is
\* not put back on the queue.
OnRaise(job, tb) == [job EXCEPT !.status = "failed", !.exc_info = tb]

\* A failure handler that puts the failed job back on the queue.
QueueAfterRaise_Retry(q, j) == Append(q, j)

\* mmm_worker.py:27 with main.py:322-330: the queue after job j has failed.
QueueAfterRaise(q, j) == q

\* A worker process that ends with the job it ran.
WorkerAfterJob_Exit(w) == [workers[w] EXCEPT !.pc = "exited"]

\* The worker after the job it ran has returned or raised: the exception of
\* a job is handled in the worker's loop, which goes on to the next job.
WorkerAfterJob(w) == Idle

\* ------------------------------------------------------------ responses
\* An HTTP response: the status code, the detail of an HTTPException or the
\* name of an exception no handler caught, and the fields of a JSON body.
Response(op, code, detail, job_id, status, result, error) ==
  [ op |-> op, code |-> code, detail |-> detail, job_id |-> job_id,
    status |-> status, result |-> result, error |-> error ]

\* The same answer under status code 503.
NotConfigured_503(op) == Response(op, 503, "Job queue not configured.", 0, "", None, None)

\* main.py:320 and main.py:336
NotConfigured(op) == Response(op, 500, "Job queue not configured.", 0, "", None, None)

\* An exception no handler of the endpoint catches: the framework answers 500.
Unhandled(op, exc) == Response(op, 500, exc, 0, "", None, None)

\* main.py:331  {"job_id": job.id, "status": job.get_status(refresh=False)}
TrainResponse(j, job) == Response("train", 200, "", j, job.status, None, None)

\* A status body that applies str() to exc_info whatever the status is.
StatusBody_AlwaysStr(job) ==
  Response("poll", 200, "", 0, job.status,
           IF job.status = "finished" THEN job.result ELSE None,
           Str(job.exc_info))

\* main.py:340-344
StatusBody(job) ==
  Response("poll", 200, "", 0, job.status,
           IF job.status = "finished" THEN job.result ELSE None,
           IF job.status = "failed" THEN Str(job.exc_info) ELSE None)

\* main.py:337  Job.fetch(job_id, connection=redis_conn): the job, or an
\* exception: ConnectionError when the broker cannot be reached,
\* NoSuchJobError when it holds no job of that id.
JobFetch(j, reachable) ==
  IF ~reachable THEN [raised |-> "ConnectionError", job |-> NoJob]
  ELSE IF Lookup(j) = NoJob THEN [raised |-> "NoSuchJobError", job |-> NoJob]
  ELSE [raised |-> "", job |-> Lookup(j)]

\* main.py:333-344  job_status_endpoint. mmm_queue, redis_conn and Job are set
\* together at start-up (main.py:42-48, 68-78), and a Queue, a Redis client
\* and a Job are truthy, so the test of line 335 is the test for a handle.
JobStatusResponse(j, reachable) ==
  IF mmm_queue = "None" THEN NotConfigured("poll")
  ELSE LET fetched == JobFetch(j, reachable)
       IN IF fetched.raised # "" THEN Unhandled("poll", fetched.raised)
          ELSE IF fetched.job = NoJob
               THEN Response("poll", 404, "Job not found.", 0, "", None, None)
               ELSE StatusBody(fetched.job)

\* -------------------------------------------------------------- the API
\* main.py:312-331  POST /mmm/train
mmm_train_endpoint(dataset_filename, project_id, reachable) ==
  \/ /\ mmm_queue = "None"
     /\ resp' = NotConfigured("train")
     /\ UNCHANGED << llmVars, libraryVars, ws, df, roles, mmm_queue, mmm_lib, jobs, queue, issued, workers, dirs, files, now, executions >>
  \/ /\ mmm_queue # "None"
     /\ ~reachable
     /\ resp' = Unhandled("train", "ConnectionError")
     /\ UNCHANGED << llmVars, libraryVars, ws, df, roles, mmm_queue, mmm_lib, jobs, queue, issued, workers, dirs, files, now, executions >>
  \/ /\ mmm_queue # "None"
     /\ reachable
     /\ issued < MaxJobs
     /\ LET j == issued + 1
            job == NewJob(dataset_filename, project_id)
        IN /\ jobs' = [jobs EXCEPT ![j] = job]
           /\ queue' = Append(queue, j)
           /\ issued' = j
           /\ resp' = TrainResponse(j, job)
     /\ UNCHANGED << llmVars, libraryVars, ws, df, roles, mmm_queue, mmm_lib, workers, dirs, files, now, executions >>

\* A poll that removes the record of a job once it has reported its end.
job_status_endpoint_Delete(j, reachable) ==
  /\ resp' = JobStatusResponse(j, reachable)
  /\ jobs' = IF reachable /\ mmm_queue # "None" /\ Lookup(j) # NoJob /\ jobs[j].status \in { "finished", "failed" }
             THEN [jobs EXCEPT ![j] = NoJob]
             ELSE jobs
  /\ UNCHANGED << llmVars, libraryVars, ws, df, roles, mmm_queue, mmm_lib, queue, issued, workers, dirs, files, now, executions >>

\* main.py:333-344  GET /jobs/{job_id}
job_status_endpoint(j, reachable) ==
  /\ resp' = JobStatusResponse(j, reachable)
  /\ UNCHANGED << llmVars, libraryVars, ws, df, roles, mmm_queue, mmm_lib, jobs, queue, issued, workers, dirs, files, now, executions >>

RECURSIVE Split(_, _)
\* str.split(sep): the parts of s between the separators
Split(s, sep) ==
  IF \A i \in 1..Len(s) : s[i] # sep THEN << s >>
  ELSE LET i == CHOOSE k \in 1..Len(s) : s[k] = sep /\ \A m \in 1..(k - 1) : s[m] # sep
       IN << SubSeq(s, 1, i - 1) >> \o Split(SubSeq(s, i + 1, Len(s)), sep)

\* path is path[1..n] of a longer or equal sequence
IsPrefix(path, of) == Len(path) <= Len(of) /\ SubSeq(of, 1, Len(path)) = path

\* os.path.isdir of the directory under DATA_DIR/models: os.makedirs
\* (data_science_agent.py:186) has made it, or a directory below it.
IsDir(path) == \E d \in dirs : IsPrefix(path, DirPath(d))

\* os.listdir: the names of the files and of the directories in the directory
ListDir(path) ==
  { f.name : f \in { g \in files : DirPath(g.dir) = path } }
  \cup { DirPath(d)[Len(path) + 1] : d \in { e \in dirs : IsPrefix(path, DirPath(e))
                                                       /\ Len(DirPath(e)) > Len(path) } }

\* main.py:24  DATA_DIR = os.getenv("DATA_DIR", "./data"); line 25 makes it.
DATA_DIR == << ".", "/", "data" >>

\* A directory the file system is asked about: up levels above DATA_DIR, or
\* the components of its path below DATA_DIR.
Location(up, path) == [up |-> up, path |-> path]

\* os.path.isdir of a location. DATA_DIR and the directories above it are
\* there; below DATA_DIR there is models/ with what the runs have made, and
\* the dataset files, which are no directories.
IsDirAt(loc) ==
  IF loc.up > 0 THEN loc.path = <<>>
  ELSE IF loc.path = <<>> THEN TRUE
  ELSE loc.path[1] = << "models" >> /\ IsDir(Tail(loc.path))

\* os.listdir of a location that is a directory. Of a directory above
\* DATA_DIR only the entry that leads to DATA_DIR is known.
ListDirAt(loc) ==
  IF loc.up > 0 THEN { Basename(DATA_DIR) }
  ELSE IF loc.path = <<>>
  THEN { ds \in Datasets : FileExists(ds) } \cup (IF dirs # {} THEN { << "models" >> } ELSE {})
  ELSE ListDir(Tail(loc.path))

\* no such directory
Nowhere == Location(0 - 1, <<>>)

RECURSIVE Walk(_, _)
\* The directory the file system reaches from loc along the components
\* parts: "." stays, ".." goes to the parent, a name goes into the entry of
\* that name; every directory on the way has to be there.
Walk(loc, parts) ==
  IF parts = <<>> THEN loc
  ELSE LET c == Head(parts)
           next == IF c = << "." >> THEN loc
                   ELSE IF c = << ".." >>
                   THEN IF loc.path = <<>> THEN Location(loc.up + 1, <<>>)
                        ELSE Location(loc.up, SubSeq(loc.path, 1, Len(loc.path) - 1))
                   ELSE Location(loc.up, Append(loc.path, c))
       IN IF IsDirAt(next) THEN Walk(next, Tail(parts)) ELSE Nowhere

\* main.py:360  os.path.join(DATA_DIR, "models", *model_id.split("/")), as
\* os.path.isdir and os.listdir resolve it: Nowhere when it is no directory.
Resolve(model_id) ==
  Walk(Location(0, <<>>), << << "models" >> >> \o NonEmpty(Split(model_id, "/")))

\* A listing that takes every entry of the directory for a plot.
PlotFiles_AnyFile(names) == names

\* main.py:364  [f for f in os.listdir(model_dir) if f.lower().endswith(".png")]
PlotFiles(names) == { f \in names : EndsWith(Lower(f), << ".", "png" >>) }

\* os.path.relpath(os.path.join(model_dir, fname), DATA_DIR)
RelPathAt(loc, fname) ==
  JoinWith([i \in 1..loc.up |-> << ".." >>] \o loc.path \o << fname >>, "/")

\* The first tokens of the file names of the model, in the order of str.
Alphabet == << "diagnostics", "media_effect", "model", "posterior", "response_curves", "roi" >>
Rank(name) ==
  IF \E i \in 1..Len(Alphabet) : name # <<>> /\ Alphabet[i] = name[1]
  THEN CHOOSE i \in 1..Len(Alphabet) : Alphabet[i] = name[1]
  ELSE Len(Alphabet) + 1

RECURSIVE Sorted(_)
\* sorted(names)
Sorted(names) ==
  IF names = {} THEN <<>>
  ELSE LET first == CHOOSE n \in names : \A m \in names : Rank(n) <= Rank(m)
       IN << first >> \o Sorted(names \ { first })

\* The answer of GET /mmm/plots: an HTTPException, or the listing.
PlotsResponse(code, detail, model_id, plots) ==
  [ op |-> "plots", code |-> code, detail |-> detail, model_id |-> model_id, plots |-> plots ]

\* main.py:367-371  the name and the url of each plot file, sorted by name
PlotEntries(loc) ==
  LET names == Sorted(PlotFiles(ListDirAt(loc)))
  IN [ i \in 1..Len(names) |->
         [ name |-> names[i], url |-> << "/", "data", "/" >> \o RelPathAt(loc, names[i]) ] ]

\* main.py:346-372  get_mmm_plots
GetMmmPlotsResponse(model_id) ==
  IF model_id = <<>> \/ \A i \in 1..Len(model_id) : model_id[i] # "/"
  THEN PlotsResponse(400, "model_id must be in the form <dataset>/<timestamp>", model_id, <<>>)
  ELSE LET model_dir == Resolve(model_id)
       IN IF model_dir = Nowhere
          THEN PlotsResponse(404, "Model not found.", model_id, <<>>)
          ELSE IF PlotFiles(ListDirAt(model_dir)) = {}
          THEN PlotsResponse(404, "No plots found for model.", model_id, <<>>)
          ELSE PlotsResponse(200, "", model_id, PlotEntries(model_dir))

\* main.py:346-372  GET /mmm/plots
get_mmm_plots(model_id) ==
  /\ resp' = GetMmmPlotsResponse(model_id)
  /\ UNCHANGED << llmVars, libraryVars, ws, df, roles, mmm_queue, mmm_lib, jobs, queue, issued, workers, dirs, files, now,
                  executions >>

\* ------------------------------------------------------------ the worker
\* os.makedirs(model_dir, exist_ok=True), data_science_agent.py:186: a
\* directory that is already there is no error.
Makedirs(ds, d) == ds \cup {d}

\* open(path, "wb") / fig.savefig(path): the file is created, or the file
\* that is there is replaced.
WriteFile(fs, d, name, j) ==
  { f \in fs : ~(f.dir = d /\ f.name = name) } \cup { [dir |-> d, name |-> name, by |-> j] }

\* The job function has returned rv.
Return(w, j, rv) ==
  /\ jobs' = [jobs EXCEPT ![j] = OnReturn(jobs[j], rv)]
  /\ workers' = [workers EXCEPT ![w] = WorkerAfterJob(w)]
  /\ UNCHANGED queue

\* The job function has raised.
Raise(w, j, tb) ==
  /\ jobs' = [jobs EXCEPT ![j] = OnRaise(jobs[j], tb)]
  /\ queue' = QueueAfterRaise(queue, j)
  /\ workers' = [workers EXCEPT ![w] = WorkerAfterJob(w)]

\* mmm_worker.py:25-27: an idle worker takes the next job and calls its
\* function, train_and_cache_mmm_job.
Dequeue(w) ==
  /\ workers[w].pc = "idle"
  /\ queue # <<>>
  /\ LET j == Head(queue)
     IN /\ queue' = QueueAfterPop(queue)
        /\ jobs' = [jobs EXCEPT ![j] = Started(jobs[j])]
        /\ executions' = [executions EXCEPT ![j] = executions[j] + 1]
        /\ workers' = [workers EXCEPT ![w] = [Idle EXCEPT !.pc = "load", !.job = j, !.started = now]]
  /\ UNCHANGED << llmVars, libraryVars, ws, df, roles, mmm_queue, mmm_lib, issued, dirs, files, now, resp >>

\* data_science_agent.py:251-254  train_and_cache_mmm_job: pd.read_csv is
\* outside every try, so what it raises leaves the job function.
ReadCsv(w) ==
  /\ workers[w].pc = "load"
  /\ LET j == workers[w].job
     IN IF FileExists(jobs[j].dataset_filename)
        THEN /\ workers' = [workers EXCEPT ![w].pc = "fit"]
             /\ UNCHANGED << jobs, queue >>
        ELSE Raise(w, j, Traceback("FileNotFoundError"))
  /\ UNCHANGED << llmVars, libraryVars, ws, df, roles, mmm_queue, mmm_lib, issued, dirs, files, now, resp, executions >>

\* data_science_agent.py:108-186  train_and_cache_mmm up to the artifact
\* directory: the imports, the column inference, the scaling and the fit;
\* what fails is returned as an error payload. Then the timestamp is read and
\* the directory made.
Fit(w) ==
  /\ workers[w].pc = "fit"
  /\ LET j == workers[w].job
         ds == jobs[j].dataset_filename
         d == ModelDir(jobs[j].project_id, now)
     IN IF ~mmm_lib
        THEN /\ Return(w, j, ErrorPayload("lightweight_mmm unavailable"))
             /\ UNCHANGED dirs
        ELSE IF ~HasTarget(ds)
        THEN /\ Return(w, j, ErrorPayload("No numeric columns found for target."))
             /\ UNCHANGED dirs
        ELSE IF FitRaises(ds)
        THEN /\ Return(w, j, ErrorPayload("MMM training failed"))
             /\ UNCHANGED dirs
        ELSE /\ dirs' = Makedirs(dirs, d)
             /\ workers' = [workers EXCEPT ![w].pc = "save", ![w].model_dir = d,
                                           ![w].next = 1]
             /\ UNCHANGED << jobs, queue >>
  /\ UNCHANGED << llmVars, libraryVars, ws, df, roles, mmm_queue, mmm_lib, issued, files, now, resp, executions >>

\* data_science_agent.py:188-240: the next artifact file is written; after
\* the last one the routine returns the model id. A plotting call that
\* raises ends the routine with an error payload.
Save(w) ==
  /\ workers[w].pc = "save"
  /\ LET j == workers[w].job
         k == workers[w].next
         d == workers[w].model_dir
     IN IF PlotRaises(jobs[j].dataset_filename) /\ k >= FirstPlot
        THEN /\ Return(w, j, ErrorPayload("MMM training failed"))
             /\ UNCHANGED files
        ELSE /\ files' = WriteFile(files, d, ArtifactFiles[k], j)
             /\ IF k = Len(ArtifactFiles)
                THEN Return(w, j, ModelPayload(d))
                ELSE /\ workers' = [workers EXCEPT ![w].next = k + 1]
                     /\ UNCHANGED << jobs, queue >>
  /\ UNCHANGED << llmVars, libraryVars, ws, df, roles, mmm_queue, mmm_lib, issued, dirs, now, resp, executions >>

\* ------------------------------------------------------- the environment
\* Time passes.
Tick ==
  /\ now < MaxClock
  /\ now' = now + 1
  /\ UNCHANGED << llmVars, libraryVars, ws, df, roles, mmm_queue, mmm_lib, jobs, queue, issued, workers, dirs, files, resp,
                  executions >>

\* The broker drops the record of a finished or failed job once its
\* retention window is over (main.py:322 sets no result_ttl or failure_ttl).
Expire(j) ==
  /\ jobs[j].status \in { "finished", "failed" }
  /\ jobs' = [jobs EXCEPT ![j] = NoJob]
  /\ UNCHANGED << llmVars, libraryVars, ws, df, roles, mmm_queue, mmm_lib, queue, issued, workers, dirs, files, now, resp,
                  executions >>

PollIds == 0..MaxJobs

Next ==
  \/ \E rq \in TrainRequests, reachable \in BOOLEAN :
       mmm_train_endpoint(rq.dataset_filename, rq.project_id, reachable)
  \/ \E j \in PollIds, reachable \in BOOLEAN : job_status_endpoint(j, reachable)
  \/ \E w \in Workers : Dequeue(w)
  \/ \E w \in Workers : ReadCsv(w)
  \/ \E w \in Workers : Fit(w)
  \/ \E w \in Workers : Save(w)
  \/ \E j \in JobIds : Expire(j)
  \/ Tick

Spec == Init /\ [][Next]_vars

\* A worker process that is running takes its next step: mmm_worker.py:27,
\* Worker.work() loops over dequeue and perform for as long as it lives.
WorkerStep(w) == Dequeue(w) \/ ReadCsv(w) \/ Fit(w) \/ Save(w)

\* The job subsystem without the poller, which writes nothing the submitter
\* or a worker reads: submits, worker steps, expiry and the clock.
FairNext ==
  \/ \E rq \in TrainRequests, reachable \in BOOLEAN :
       mmm_train_endpoint(rq.dataset_filename, rq.project_id, reachable)
  \/ \E w \in Workers : WorkerStep(w)
  \/ \E j \in JobIds : Expire(j)
  \/ Tick

\* Every worker process keeps running and every call of the training routine
\* returns or raises.
FairSpec == Init /\ [][FairNext]_vars /\ \A w \in Workers : WF_vars(WorkerStep(w))

\* The identifiers GET /mmm/plots is given: the empty one, one without a
\* separator, a dataset directory, and model ids, one with a doubled separator.
PlotIds ==
  { <<>>, <<"braidai">>, <<"braidai", "/">>, <<"braidai", "/", "0">>,
    <<"braidai", "/", "/", "1">>, <<"braidai", "/", "..", "/", "..">> }

\* The requests that lead a training run to its model id and to a directory
\* without plots.
ApiRequests ==
  { rq \in TrainRequests :
      /\ rq.dataset_filename \in { <<"badplot", ".", "csv">>, <<"a", ".", "csv">> }
      /\ rq.project_id = NoOverride }

\* The API with its three MMM endpoints, the workers and the clock, for as
\* long as the broker keeps the jobs.
ApiNext ==
  \/ \E rq \in ApiRequests, reachable \in BOOLEAN :
       mmm_train_endpoint(rq.dataset_filename, rq.project_id, reachable)
  \/ \E j \in JobIds : job_status_endpoint(j, TRUE)
  \/ \E m \in PlotIds : get_mmm_plots(m)
  \/ \E w \in Workers : WorkerStep(w)
  \/ Tick

ApiSpec == Init /\ [][ApiNext]_vars

\* ------------------------------------------ the training routine on a table
\* data_science_agent.py:117-145: train_and_cache_mmm, called with the table
\* df, infers the roles of its columns.
InferColumnRoles ==
  /\ mmm_lib
  /\ roles = NotRun
  /\ roles' = ColumnRoles(df)
  /\ UNCHANGED << llmVars, libraryVars, ws, df, mmm_queue, mmm_lib, jobs, queue, issued,
                  workers, dirs, files, now,
                  resp, executions >>

\* train_and_cache_mmm is given a table; nothing else is going on.
InferInit ==
  /\ df \in Tables
  /\ roles = NotRun
  /\ mmm_queue = "None"
  /\ mmm_lib = TRUE
  /\ jobs = [j \in JobIds |-> NoJob]
  /\ queue = <<>>
  /\ issued = 0
  /\ workers = [w \in Workers |-> Idle]
  /\ dirs = {}
  /\ files = {}
  /\ now = 0
  /\ resp = NoResponse
  /\ executions = [j \in JobIds |-> 0]
  /\ vertex = VertexAtStartup
  /\ MODEL = None
  /\ library = {}
  /\ library_env = LibraryEnv("local", TRUE, TRUE, TRUE)
  /\ ws = NoSession

InferNext == InferColumnRoles

InferSpec == InferInit /\ [][InferNext]_vars

\* ------------------------------------------------------------- the agents
\* The names main.py binds at module level (main.py:3-19, 41-62) and its own
\* definitions that the handlers below call. A name that is not bound raises
\* NameError where the handler uses it.
MainNames ==
  { "os", "sys", "uuid", "base64", "json", "asyncio", "pd", "httpx", "Optional",
    "FastAPI", "Form", "HTTPException", "WebSocket", "Request", "UploadFile", "File",
    "FileResponse", "StaticFiles", "CORSMiddleware", "JSONResponse", "vertexai",
    "Redis", "Queue", "Job", "save_bytes", "signed_url", "image_ops",
    "run_standard_agent", "run_follow_up_agent", "find_sitemap",
    "generate_prompts_for_url", "run_full_seo_analysis", "generate_ad_creative",
    "brand_strategist_agent", "creative_director_agent", "copywriter_agent" }

\* The name is bound in main.py.
Bound(name) == name \in MainNames

\* creative_agent.py:6  PROJECT_ID = os.getenv("GOOGLE_CLOUD_PROJECT", "")
CREATIVE_PROJECT_ID == GOOGLE_PROJECT

\* An answer of an agent endpoint: the status, the body, the request it
\* answers, and the image model client the handler used, if it used one.
AgentResponse(op, code, body, request, client) ==
  [op |-> op, code |-> code, body |-> body, request |-> request, client |-> client]

\* A client bound to the project of the agent module's own environment read.
ImageModel_ModuleProject(sdk) ==
  [kind |-> "model", project |-> CREATIVE_PROJECT_ID, location |-> sdk.location]

\* The image model client ImageGenerationModel.from_pretrained gives: it is
\* bound to the project and location the SDK has at that moment.
ImageModel(sdk) == [kind |-> "model", project |-> sdk.project, location |-> sdk.location]

\* creative_agent.py:10-19  _ensure_vertex: with _MODEL unset the SDK is
\* initialised and a client is loaded (fresh); with _MODEL set neither happens.
EnsureVertex(model, project_id, location) ==
  LET pid == Or(project_id, CREATIVE_PROJECT_ID)
      loc == Or(location, LOCATION)
  IN IF model = None
     THEN [sdk |-> VertexInit(pid, loc), fresh |-> TRUE, unset |-> pid = <<>>]
     ELSE [sdk |-> vertex, fresh |-> FALSE, unset |-> FALSE]

\* The creative requests: the platform, and whether a subject image comes
\* with it as a data URL, as a string without a comma, or not at all.
CreativeRequests ==
  { [platform |-> pf, subjectImage |-> img] :
      pf \in { "meta", "tiktok" }, img \in { "", "nocomma", "dataurl" } }

\* creative_agent.py:56  the aspect ratio of the platform
Aspect(platform) == IF platform = "meta" THEN "1:1" ELSE "9:16"

\* creative_agent.py:42  n: int = 4
Tries == 4

\* main.py:155-190  POST /generate-creative with creative_agent.py:42-98.
\* loaded: from_pretrained returns; images: how many of the calls of the
\* model return an image.
generate_creative_endpoint(request, loaded, images) ==
  /\ LET ensured == EnsureVertex(MODEL, PROJECT_ID, LOCATION)
         model == IF ensured.fresh THEN ImageModel(ensured.sdk) ELSE MODEL
     IN IF ensured.unset
        THEN /\ resp' = AgentResponse("creative", 500, "GOOGLE_CLOUD_PROJECT not set", request, None)
             /\ UNCHANGED << vertex, MODEL >>
        ELSE IF ensured.fresh /\ ~loaded
        THEN /\ vertex' = ensured.sdk
             /\ resp' = AgentResponse("creative", 500, "from_pretrained", request, None)
             /\ UNCHANGED MODEL
        ELSE /\ vertex' = ensured.sdk
             /\ MODEL' = model
             /\ resp' =
                  IF request.subjectImage = "nocomma"
                  THEN AgentResponse("creative", 500, "ValueError", request, model)
                  ELSE IF images = 0
                  THEN AgentResponse("creative", 500, "No images returned by model.", request, model)
                  ELSE AgentResponse("creative", 200,
                         [image_urls |-> [i \in 1..images |-> "data:image/png"],
                          aspect |-> Aspect(request.platform)], request, model)
  /\ UNCHANGED << mmmVars, libraryVars, ws >>

\* The replies of the language model: text, in which "{" and "}" are tokens
\* and "approaches" stands for the members of a well-formed JSON object.
Replies ==
  { << "{", "approaches", "}" >>,
    << "Sure", "{", "approaches", "}", "Done" >>,
    << "{", "approaches", "}", "{", "approaches", "}" >>,
    << "{", "oops", "}" >>,
    << "{", "approaches" >>,
    << "Sorry" >> }

\* What generate_content(...).text does: it raises, or it gives a reply.
LlmOutcomes == { << "raises" >> } \cup Replies

\* re.search(r'\{.*\}', text, re.DOTALL): from the first "{" to the last "}"
\* after it; <<>> when there is no match.
JsonMatch(text) ==
  LET opens == { i \in 1..Len(text) : text[i] = "{" }
      first == CHOOSE i \in opens : \A k \in opens : i <= k
      closes == { i \in 1..Len(text) : text[i] = "}" /\ i > first }
      last == CHOOSE i \in closes : \A k \in closes : i >= k
  IN IF opens = {} THEN <<>>
     ELSE IF closes = {} THEN <<>>
     ELSE SubSeq(text, first, last)

\* json.loads accepts the string.
JsonLoads(string) ==
  string \in { << "{", "}" >>, << "{", "approaches", "}" >> }

\* brand_strategist_agent.py:66-91: the try block of analyze_brand_with_llm.
\* When generate_content or .text raises, raw_llm_text is not bound yet and
\* the return of the except clause raises UnboundLocalError.
AnalyzeBrand(llm, website, ad_library) ==
  IF llm = << "raises" >>
  THEN [raised |-> "UnboundLocalError", error |-> ""]
  ELSE IF JsonMatch(llm) # <<>> /\ ~JsonLoads(JsonMatch(llm))
  THEN [raised |-> "", error |-> "LLM generation failed"]
  ELSE [raised |-> "", error |-> "",
        llm_response |-> IF JsonMatch(llm) # <<>> THEN JsonMatch(llm) ELSE llm,
        fetched_website_content |-> website, fetched_ad_library_content |-> ad_library]

\* brand_strategist_agent.py:8-27: the fetch gives the page's text, or the
\* text of its own error; it never raises.
Fetched == { "page text", "An error occurred while fetching the content" }

\* The brand requests: with and without the required fields and the optional
\* adLibraryUrl.
BrandRequests ==
  { [brandName |-> b, websiteUrl |-> "https://brand", adLibraryUrl |-> a, userBrief |-> u] :
      b \in { "", "Brand" }, a \in { "", "https://ads" }, u \in { "", "brief" } }

\* main.py:252-271  POST /analyze-brand with brand_strategist_agent.py:32-91
analyze_brand_endpoint(request, website, ad, llm) ==
  /\ IF request.brandName = "" \/ request.websiteUrl = "" \/ request.userBrief = ""
     THEN /\ resp' = AgentResponse("brand", 400, "Missing required fields.", request, None)
          /\ UNCHANGED vertex
     ELSE LET ad_library == IF request.adLibraryUrl # "" THEN ad
                            ELSE "No Ad Library URL provided."
              data == AnalyzeBrand(llm, website, ad_library)
          IN /\ vertex' = VertexInit(PROJECT_ID, LOCATION)
             /\ resp' = IF data.raised # ""
                        THEN AgentResponse("brand", 500, data.raised, request, None)
                        ELSE IF data.error # ""
                        THEN AgentResponse("brand", 500, data.error, request, None)
                        ELSE AgentResponse("brand", 200, data, request, None)
  /\ UNCHANGED << mmmVars, libraryVars, ws, MODEL >>

RECURSIVE WriteFirst(_, _, _)
\* data_science_agent.py:189-229: the first k artifact files are written.
WriteFirst(fs, d, k) ==
  IF k = 0 THEN fs ELSE WriteFile(WriteFirst(fs, d, k - 1), d, ArtifactFiles[k], 0)

\* data_science_agent.py:312-394  run_bayesian_mmm_agent: the training of
\* train_and_cache_mmm with the dataset's name for the directory, then the
\* summary, for which a fixed text stands in when the model call raises.
run_bayesian_mmm_agent(dataset_name, summary) ==
  LET d == ModelDir(dataset_name, now)
  IN IF ~mmm_lib
     THEN [result |-> ErrorPayload("lightweight_mmm unavailable"), dirs |-> dirs, files |-> files]
     ELSE IF ~HasTarget(dataset_name)
     THEN [result |-> ErrorPayload("No numeric columns found for target."),
           dirs |-> dirs, files |-> files]
     ELSE IF FitRaises(dataset_name)
     THEN [result |-> ErrorPayload("MMM training failed"), dirs |-> dirs, files |-> files]
     ELSE IF PlotRaises(dataset_name)
     THEN [result |-> ErrorPayload("MMM training failed"), dirs |-> Makedirs(dirs, d),
           files |-> WriteFirst(files, d, FirstPlot - 1)]
     ELSE [result |-> [ model_id |-> ModelId(d), plots |-> ModelPayload(d).plots,
                        summary |-> summary, error |-> "" ],
           dirs |-> Makedirs(dirs, d), files |-> WriteFirst(files, d, Len(ArtifactFiles))]

\* The answers of the language model to run_standard_agent, and what stands
\* for the summary of the Bayesian flow.
Reports == { "report", "no JSON", "raises" }

\* main.py:200-233  POST /analyze
analyze_data(dataset_filename, model_type, llm) ==
  /\ LET request == [dataset_filename |-> dataset_filename, model_type |-> model_type]
     IN IF ~FileExists(dataset_filename)
        THEN /\ resp' = AgentResponse("analyze", 404, "Dataset not found.", request, None)
             /\ UNCHANGED << vertex, dirs, files >>
        ELSE IF model_type = "bayesian"
        THEN IF ~Bound("run_bayesian_mmm_agent")
             THEN /\ resp' = AgentResponse("analyze", 500, "NameError", request, None)
                  /\ UNCHANGED << vertex, dirs, files >>
             ELSE LET run == run_bayesian_mmm_agent(dataset_filename,
                                IF llm = "report" THEN "summary" ELSE "fallback summary")
                  IN /\ dirs' = run.dirs
                     /\ files' = run.files
                     /\ vertex' = IF run.result.error = ""
                                  THEN VertexInit(PROJECT_ID, LOCATION) ELSE vertex
                     /\ resp' = IF run.result.error # ""
                                THEN AgentResponse("analyze", 500, run.result.error, request, None)
                                ELSE AgentResponse("analyze", 200, run.result, request, None)
        ELSE /\ vertex' = VertexInit(PROJECT_ID, LOCATION)
             /\ resp' = AgentResponse("analyze", 200,
                          IF llm = "report" THEN [reportTitle |-> "report"]
                          ELSE [error |-> "An error occurred during standard analysis"],
                          request, None)
             /\ UNCHANGED << dirs, files >>
  /\ UNCHANGED << mmm_queue, mmm_lib, jobs, queue, issued, workers, now, executions, df, roles,
                  MODEL, libraryVars, ws >>

AgentInit ==
  /\ vertex = VertexAtStartup
  /\ MODEL = None
  /\ resp = NoResponse
  /\ now = 0
  /\ mmm_queue = "None"
  /\ mmm_lib = TRUE
  /\ jobs = [j \in JobIds |-> NoJob]
  /\ queue = <<>>
  /\ issued = 0
  /\ workers = [w \in Workers |-> Idle]
  /\ dirs = {}
  /\ files = {}
  /\ executions = [j \in JobIds |-> 0]
  /\ df = <<>>
  /\ roles = NotRun
  /\ library = {}
  /\ library_env = LibraryEnv("local", TRUE, TRUE, TRUE)
  /\ ws = NoSession

AgentNext ==
  \/ \E request \in CreativeRequests, loaded \in BOOLEAN, images \in 0..Tries :
       generate_creative_endpoint(request, loaded, images)
  \/ \E request \in BrandRequests, website \in Fetched, ad \in Fetched, llm \in LlmOutcomes :
       analyze_brand_endpoint(request, website, ad, llm)
  \/ \E ds \in Datasets, model_type \in { "standard", "bayesian" }, llm \in Reports :
       analyze_data(ds, model_type, llm)

AgentSpec == AgentInit /\ [][AgentNext]_vars

\* -------------------------------------------------------- the image library
\* What a request to the library carries as image: nothing, a data URL
\* without a comma, bytes that are no image, or an image.
Payloads == { "none", "nocomma", "garbage", "image" }

\* The edit operations a request may name.
Operations == { "grayscale", "invert", "brightness", "sepia" }
Supported == { "grayscale", "invert", "brightness" }

\* An answer of a library endpoint.
LibraryResponse(op, code, detail, urls) ==
  [op |-> op, code |-> code, detail |-> detail, urls |-> urls]

\* str(uuid.uuid4()): an id no earlier call has drawn.
FreshUid(lib) == ToString(Cardinality({ f \in lib : f.dir = << "orig" >> }) + 1)

\* main.py:388  f"orig/{uid}.jpg" and its siblings
ImagePath(dir, uid) == << dir, "/", uid, ".", "jpg" >>

\* os.path.dirname: what precedes the last "/"
Dirname(p) == SubSeq(p, 1, LastIndexOf(p, "/", Len(p)) - 1)

\* The files of the library directly in the directory dir.
InDir(lib, dir) == { f \in lib : f.dir = << dir >> }

\* storage.py:59-62: the file of the path is created or replaced.
Stored(lib, path, mtime) ==
  LET dir == Dirname(path)
      name == Basename(path)
  IN { f \in lib : ~(f.dir = dir /\ f.name = name) }
     \cup { [dir |-> dir, name |-> name, mtime |-> mtime] }

\* storage.py:63  f"/image_library/{path}"
LibraryUrl(path) == << "/", "image_library", "/" >> \o path

\* main.py:379-384, 402-407, 430-435: what the handler does before it touches
\* the image: "" to go on, or the exception it ends with.
Before(op, payload) ==
  IF ~library_env.imports THEN LibraryResponse(op, 500, "Image library not configured.", <<>>)
  ELSE IF payload = "nocomma" THEN LibraryResponse(op, 500, "IndexError", <<>>)
  ELSE IF payload = "none" THEN LibraryResponse(op, 400, "No image data provided.", <<>>)
  ELSE LibraryResponse(op, 0, "", <<>>)

\* main.py:375-394  POST /library/images/save
save_image_endpoint(payload) ==
  /\ Cardinality(InDir(library, "orig")) < MaxImages
  /\ LET uid == FreshUid(library)
         orig == ImagePath("orig", uid)
         medium == ImagePath("m", uid)
         thumb == ImagePath("t", uid)
     IN IF Before("save", payload).code # 0
        THEN resp' = Before("save", payload) /\ UNCHANGED library
        ELSE IF payload = "garbage"
        THEN resp' = LibraryResponse("save", 500, "UnidentifiedImageError", <<>>)
             /\ UNCHANGED library
        ELSE IF library_env.backend = "gcs"
        THEN resp' = LibraryResponse("save", 500, "NotImplementedError", <<>>)
             /\ UNCHANGED library
        ELSE /\ library' = Stored(Stored(Stored(library, orig, now), medium, now), thumb, now)
             /\ resp' = LibraryResponse("save", 200, "",
                          [ orig |-> LibraryUrl(orig), medium |-> LibraryUrl(medium),
                            thumb |-> LibraryUrl(thumb) ])
  /\ UNCHANGED << mmmVars, llmVars, library_env, ws >>

\* main.py:396-411  POST /library/images/text-overlay
text_overlay_endpoint(payload) ==
  /\ Cardinality(InDir(library, "orig")) < MaxImages
  /\ LET orig == ImagePath("orig", FreshUid(library))
     IN IF Before("overlay", payload).code # 0
        THEN resp' = Before("overlay", payload) /\ UNCHANGED library
        ELSE IF payload = "garbage"
        THEN resp' = LibraryResponse("overlay", 500, "UnidentifiedImageError", <<>>)
             /\ UNCHANGED library
        ELSE IF ~library_env.textsize
        THEN resp' = LibraryResponse("overlay", 500, "AttributeError", <<>>)
             /\ UNCHANGED library
        ELSE IF library_env.backend = "gcs"
        THEN resp' = LibraryResponse("overlay", 500, "NotImplementedError", <<>>)
             /\ UNCHANGED library
        ELSE /\ library' = Stored(library, orig, now)
             /\ resp' = LibraryResponse("overlay", 200, "", [ orig |-> LibraryUrl(orig) ])
  /\ UNCHANGED << mmmVars, llmVars, library_env, ws >>

\* main.py:413-453  POST /library/images/edit
edit_image_endpoint(operation, payload) ==
  /\ Cardinality(InDir(library, "orig")) < MaxImages
  /\ LET orig == ImagePath("orig", FreshUid(library))
     IN IF Before("edit", payload).code # 0
        THEN resp' = Before("edit", payload) /\ UNCHANGED library
        ELSE IF ~Bound("io")
        THEN resp' = LibraryResponse("edit", 500, "NameError", <<>>)
             /\ UNCHANGED library
        ELSE IF payload = "garbage"
        THEN resp' = LibraryResponse("edit", 500, "UnidentifiedImageError", <<>>)
             /\ UNCHANGED library
        ELSE IF operation \notin Supported
        THEN resp' = LibraryResponse("edit", 400, "Unsupported edit operation", <<>>)
             /\ UNCHANGED library
        ELSE IF library_env.backend = "gcs"
        THEN resp' = LibraryResponse("edit", 500, "NotImplementedError", <<>>)
             /\ UNCHANGED library
        ELSE /\ library' = Stored(library, orig, now)
             /\ resp' = LibraryResponse("edit", 200, "", [ orig |-> LibraryUrl(orig) ])
  /\ UNCHANGED << mmmVars, llmVars, library_env, ws >>

\* A listing that takes .png files only.
Listed_PngOnly(fname) == EndsWith(Lower(fname), << ".", "png" >>)

\* main.py:474  fname.lower().endswith(('.jpg', '.jpeg', '.png'))
Listed(fname) ==
  \/ EndsWith(Lower(fname), << ".", "jpg" >>)
  \/ EndsWith(Lower(fname), << ".", "jpeg" >>)
  \/ EndsWith(Lower(fname), << ".", "png" >>)

\* main.py:476-487: the asset of one file of orig/ (mtime is dropped at 492-493)
Asset(fname) ==
  LET uid == SplitextRoot(fname)
  IN [ id |-> uid,
       orig |-> << "/", "image_library", "/", "orig", "/" >> \o fname,
       medium |-> << "/", "image_library", "/", "m", "/" >> \o uid \o << ".", "jpg" >>,
       thumb |-> << "/", "image_library", "/", "t", "/" >> \o uid \o << ".", "jpg" >> ]

\* main.py:489: the orders sort() can leave the files in. os.listdir gives them
\* in any order and the sort is stable, so files of equal mtime stay in any
\* order; files of different mtime come latest first.
AssetOrders(lib) ==
  LET listed == { f \in InDir(lib, "orig") : Listed(f.name) }
      n == Cardinality(listed)
  IN { o \in [1..n -> listed] :
         /\ \A i, k \in 1..n : i # k => o[i] # o[k]
         /\ \A i, k \in 1..n : i < k => o[i].mtime >= o[k].mtime }

\* main.py:465-495: the answers GET /library/assets can give in the library lib.
Listings(lib) ==
  IF ~(library_env.root \/ lib # {})
  THEN { LibraryResponse("assets", 404, "Image library not found.", <<>>) }
  ELSE IF InDir(lib, "orig") = {}
  THEN { LibraryResponse("assets", 200, "", <<>>) }
  ELSE { LibraryResponse("assets", 200, "", [ i \in DOMAIN o |-> Asset(o[i].name) ]) :
           o \in AssetOrders(lib) }

\* main.py:455-495  GET /library/assets
list_library_assets ==
  /\ resp' \in Listings(library)
  /\ UNCHANGED << mmmVars, llmVars, libraryVars, ws >>

\* The library with every storage backend, with and without the optional
\* imports, and with an old or a new Pillow.
LibraryInit ==
  /\ library_env \in { LibraryEnv(b, i, t, r) :
                         b \in { "local", "gcs" }, i \in BOOLEAN, t \in BOOLEAN, r \in BOOLEAN }
  /\ library = {}
  /\ resp = NoResponse
  /\ now = 0
  /\ mmm_queue = "None"
  /\ mmm_lib = TRUE
  /\ jobs = [j \in JobIds |-> NoJob]
  /\ queue = <<>>
  /\ issued = 0
  /\ workers = [w \in Workers |-> Idle]
  /\ dirs = {}
  /\ files = {}
  /\ executions = [j \in JobIds |-> 0]
  /\ df = <<>>
  /\ roles = NotRun
  /\ vertex = VertexAtStartup
  /\ MODEL = None
  /\ ws = NoSession

LibraryNext ==
  \/ \E payload \in Payloads : save_image_endpoint(payload)
  \/ \E payload \in Payloads : text_overlay_endpoint(payload)
  \/ \E operation \in Operations, payload \in Payloads :
       edit_image_endpoint(operation, payload)
  \/ list_library_assets
  \/ Tick

LibrarySpec == LibraryInit /\ [][LibraryNext]_vars

\* ------------------------------------------------- the SEO analysis socket
\* A JSON value of the client's message: its Python type and its text.
Value(type, text) == [type |-> type, text |-> text]

\* Python's truth of a value: None, "", 0 and {} are falsy.
Truthy(v) == v.type # "NoneType" /\ v.text \notin { "", "0", "{}" }

\* What the client does after the accept: it sends text that is no JSON, it
\* goes away, it sends a JSON list, or it sends a JSON object, in which
\* data.get gives None for a key that is not there.
ClientMessages ==
  { [kind |-> k] : k \in { "invalid", "disconnect", "list" } }
  \cup { [kind |-> "dict", yourSite |-> y, prompts |-> q] :
           y \in { Value("NoneType", "None"), Value("str", ""), Value("str", "https://site"),
                   Value("int", "5") },
           q \in { Value("NoneType", "None"), Value("dict", "{}"), Value("dict", "{seo}") } }

\* A check that asks for the site only.
Missing_SiteOnly(data) == ~Truthy(data.yourSite)

\* main.py:144  if not your_site or not prompts
Missing(data) == ~Truthy(data.yourSite) \/ ~Truthy(data.prompts)

Info(message) == [status |-> "info", message |-> message]
Error(message) == [status |-> "error", message |-> message]
Complete == [status |-> "complete", message |-> "report"]

\* The session after the handler has raised e.
Except(session, e) == [session EXCEPT !.pc = "except", !.e = e]

\* main.py:137  await websocket.accept()
Accept(data) ==
  /\ ws = NoSession
  /\ ws' = [pc |-> "receive", data |-> data, sent |-> <<>>, steps |-> <<>>,
            failed |-> FALSE, e |-> ""]
  /\ UNCHANGED << mmmVars, llmVars, libraryVars, resp >>

\* main.py:139-144: receive_json, the three data.get and the check
Receive ==
  /\ ws.pc = "receive"
  /\ ws' = IF ws.data.kind = "invalid" THEN Except(ws, "JSONDecodeError")
           ELSE IF ws.data.kind = "disconnect"
           THEN [Except(ws, "WebSocketDisconnect") EXCEPT !.failed = TRUE]
           ELSE IF ws.data.kind = "list" THEN Except(ws, "AttributeError")
           ELSE IF Missing(ws.data) THEN [ws EXCEPT !.pc = "missing"]
           ELSE [ws EXCEPT !.pc = "info1"]
  /\ UNCHANGED << mmmVars, llmVars, libraryVars, resp >>

\* The send_json calls: where the handler is, what it sends, and where it
\* goes on (main.py:145, 148, 150; seo_agent.py:175, 179, 193).
Sends ==
  [ missing |-> [msg |-> Error("Missing site URL or prompts."), then |-> "finally"],
    info1 |-> [msg |-> Info("Finding sitemap..."), then |-> "sitemap"],
    info2 |-> [msg |-> Info("Fetching homepage..."), then |-> "homepage"],
    info3 |-> [msg |-> Info("SEO analysis finished."), then |-> "complete"],
    complete |-> [msg |-> Complete, then |-> "finally"] ]

\* await websocket.send_json(...) in the try block: the message goes out, or
\* the send raises (the peer is gone) and the except clause is entered.
Send(ok) ==
  /\ ws.pc \in DOMAIN Sends
  /\ ws' = IF ok /\ ~ws.failed
           THEN [ws EXCEPT !.pc = Sends[ws.pc].then, !.sent = Append(@, Sends[ws.pc].msg)]
           ELSE [Except(ws, "send failed") EXCEPT !.failed = TRUE]
  /\ UNCHANGED << mmmVars, llmVars, libraryVars, resp >>

\* seo_agent.py:176-177  find_sitemap: url.rstrip raises for a site that is
\* no string; otherwise the sitemap is found or not.
FindSitemap(found) ==
  /\ ws.pc = "sitemap"
  /\ ws' = IF ws.data.yourSite.type # "str"
           THEN [Except(ws, "AttributeError") EXCEPT !.steps = Append(@, "find_sitemap")]
           ELSE [ws EXCEPT !.pc = "info2",
                           !.steps = Append(@, IF found THEN "sitemap" ELSE "not found")]
  /\ UNCHANGED << mmmVars, llmVars, libraryVars, resp >>

\* seo_agent.py:180-187  get_html and the parsing: what they raise is caught.
GetHtml(fetched) ==
  /\ ws.pc = "homepage"
  /\ ws' = [ws EXCEPT !.pc = "info3",
                      !.steps = Append(@, IF fetched THEN "overview" ELSE "overview_error")]
  /\ UNCHANGED << mmmVars, llmVars, libraryVars, resp >>

\* main.py:149-150  except Exception as e: send the error; when this send
\* raises too, the exception leaves the handler after the finally clause.
SendError(ok) ==
  /\ ws.pc = "except"
  /\ ws' = IF ok /\ ~ws.failed
           THEN [ws EXCEPT !.pc = "finally", !.sent = Append(@, Error(ws.e))]
           ELSE [ws EXCEPT !.pc = "finally", !.failed = TRUE]
  /\ UNCHANGED << mmmVars, llmVars, libraryVars, resp >>

\* main.py:151-152  finally: await websocket.close()
Close ==
  /\ ws.pc = "finally"
  /\ ws' = [ws EXCEPT !.pc = "closed"]
  /\ UNCHANGED << mmmVars, llmVars, libraryVars, resp >>

WsInit == AgentInit

WsNext ==
  \/ \E data \in ClientMessages : Accept(data)
  \/ Receive
  \/ \E ok \in BOOLEAN : Send(ok)
  \/ \E found \in BOOLEAN : FindSitemap(found)
  \/ \E fetched \in BOOLEAN : GetHtml(fetched)
  \/ \E ok \in BOOLEAN : SendError(ok)
  \/ Close

\* The event loop runs the handler on to its end.
WsSpec == WsInit /\ [][WsNext]_vars /\ WF_vars(WsNext)

\* ------------------------------------------------------------ properties
Terminal == { "finished", "failed" }

Busy(w) == workers[w].pc \in { "load", "fit", "save" }

\* C1: the status of a job the broker holds only moves queued -> started ->
\* finished or queued -> started -> failed; a new job starts queued, and a
\* finished or failed job keeps its status.
C1_StatusTransitions ==
  [][\A j \in JobIds :
       /\ (jobs[j] = NoJob /\ jobs'[j] # NoJob) => jobs'[j].status = "queued"
       /\ (jobs[j] # NoJob /\ jobs'[j] # NoJob) =>
            \/ jobs'[j].status = jobs[j].status
            \/ << jobs[j].status, jobs'[j].status >> \in
                 { << "queued", "started" >>, << "started", "finished" >>,
                   << "started", "failed" >> }]_vars

C1_Witness ==
  \E j, k \in JobIds : jobs[j].status = "finished" /\ jobs[k].status = "failed"

\* The training routine, run on the dataset, meets an exception at some
\* stage: loading the file, fitting, or plotting.
HitsException(ds) ==
  \/ ~FileExists(ds)
  \/ mmm_lib /\ HasTarget(ds) /\ (FitRaises(ds) \/ PlotRaises(ds))

\* C2: a job whose training routine met an exception is reported failed with
\* a non-null error by the poller, never finished.
C2_ExceptionMeansFailed ==
  \A j \in JobIds :
    (jobs[j] # NoJob /\ jobs[j].status \in Terminal
       /\ HitsException(jobs[j].dataset_filename)) =>
      LET r == JobStatusResponse(j, TRUE)
      IN mmm_queue = "Queue" => (r.status = "failed" /\ r.error # None)

C4_UnknownIdNotFound ==
  [][\A j \in PollIds :
       (mmm_queue = "Queue" /\ Lookup(j) = NoJob /\ job_status_endpoint(j, TRUE))
         => resp'.code = 404]_vars

\* The queue is unavailable to a submit: there is no queue handle, or the
\* broker cannot be reached.
QueueUnavailable(reachable) == mmm_queue = "None" \/ ~reachable

\* C5 as stated: a submit that finds the queue unavailable answers
\* service-unavailable (503) and creates no job.
C5_ServiceUnavailable ==
  [][\A rq \in TrainRequests, reachable \in BOOLEAN :
       (QueueUnavailable(reachable)
          /\ mmm_train_endpoint(rq.dataset_filename, rq.project_id, reachable))
         => (resp'.code = 503 /\ UNCHANGED << jobs, queue, issued >>)]_vars

\* C5 as amended: a submit that finds the queue unavailable answers with the
\* server error 500, stores no job, queues nothing and issues no id, so
\* nothing is left that could be retried.
C5_ServerErrorNoJob ==
  [][\A rq \in TrainRequests, reachable \in BOOLEAN :
       (QueueUnavailable(reachable)
          /\ mmm_train_endpoint(rq.dataset_filename, rq.project_id, reachable))
         => (resp'.code = 500 /\ resp'.job_id = 0
             /\ UNCHANGED << jobs, queue, issued, workers, executions >>)]_vars

C5_Witness ==
  /\ resp.op = "train"
  /\ resp.code = 500
  /\ resp.detail = "ConnectionError"
  /\ issued > 0

\* C6: a job that was enqueued is eventually reported finished or failed by
\* the poller, given running workers.
C6_EventuallyTerminal ==
  \A j \in JobIds :
    (jobs[j].status = "queued") ~> (JobStatusResponse(j, TRUE).status \in Terminal)

C6_Witness ==
  \E j \in JobIds :
    /\ jobs[j] # NoJob
    /\ FileExists(jobs[j].dataset_filename)
    /\ JobStatusResponse(j, TRUE).status \in Terminal

\* What a job's function call leaves in the broker, as its own arguments
\* alone decide it; ts is the second the routine read for the model id.
ExpectedOutcome(job, ts) ==
  LET ds == job.dataset_filename
  IN IF ~FileExists(ds)
     THEN [status |-> "failed", result |-> None, exc_info |-> Traceback("FileNotFoundError")]
     ELSE [ status |-> "finished",
            exc_info |-> None,
            result |->
              IF ~mmm_lib THEN ErrorPayload("lightweight_mmm unavailable")
              ELSE IF ~HasTarget(ds) THEN ErrorPayload("No numeric columns found for target.")
              ELSE IF FitRaises(ds) \/ PlotRaises(ds) THEN ErrorPayload("MMM training failed")
              ELSE ModelPayload(<< DatasetName(job.project_id), ts >>) ]

Seconds == 0..Timestamp(MaxClock)

\* C7: the worker that ran a job is ready for the next one whatever the job
\* ended with, and the status, result and error of every ended job are what
\* its own arguments decide, whichever jobs ran before or beside it.
C7_FailureIsolated ==
  /\ \A w \in Workers : workers[w].pc \in { "idle", "load", "fit", "save" }
  /\ \A w \in Workers : Busy(w) => jobs[workers[w].job].status = "started"
  /\ \A j \in JobIds :
       (jobs[j] # NoJob /\ jobs[j].status \in Terminal) =>
         \E ts \in Seconds :
           LET e == ExpectedOutcome(jobs[j], ts)
           IN /\ jobs[j].status = e.status
              /\ jobs[j].result = e.result
              /\ jobs[j].exc_info = e.exc_info

\* a job has failed, and a job that was queued behind it is being run while
\* every other worker is idle
C7_Witness ==
  \E w \in Workers, j \in JobIds :
    /\ jobs[j] # NoJob
    /\ jobs[j].status = "failed"
    /\ Busy(w)
    /\ workers[w].job > j
    /\ \A v \in Workers \ {w} : workers[v].pc = "idle"
    /\ \A k \in JobIds : executions[k] = 1

\* C8: the function of a job is called at most once: no two workers run the
\* same job, and no job that was started is on the queue again.
C8_AtMostOnce ==
  /\ \A j \in JobIds : executions[j] <= 1
  /\ \A v, w \in Workers : (v # w /\ Busy(v) /\ Busy(w)) => workers[v].job # workers[w].job
  /\ \A i \in 1..Len(queue) : jobs[queue[i]].status = "queued" /\ executions[queue[i]] = 0

\* two workers run jobs at once, each job called once
C8_Witness ==
  \E v, w \in Workers :
    /\ v # w
    /\ Busy(v)
    /\ Busy(w)
    /\ executions[workers[v].job] = 1
    /\ executions[workers[w].job] = 1

\* C9: two runs for the same dataset that started in different seconds have
\* different model directories (model ids).
C9_DistinctStartsDistinctIds ==
  \A v, w \in Workers :
    ( /\ v # w
      /\ workers[v].pc = "save"
      /\ workers[w].pc = "save"
      /\ jobs[workers[v].job].dataset_filename = jobs[workers[w].job].dataset_filename
      /\ Timestamp(workers[v].started) # Timestamp(workers[w].started) )
    => workers[v].model_dir # workers[w].model_dir

\* C10: no run writes in a directory that holds a file of a run for another
\* dataset.
C10_NoSharedArtifactPath ==
  \A f \in files, w \in Workers :
    ( /\ workers[w].pc = "save"
      /\ workers[w].job # f.by
      /\ jobs[f.by] # NoJob
      /\ jobs[f.by].dataset_filename # jobs[workers[w].job].dataset_filename )
    => f.dir # workers[w].model_dir

\* ---------------------------------------------- properties: column inference
\* C14: on a table with a numeric column the inference ends with the
\* no-numeric-columns error or with a target and a non-empty list of media
\* columns.
C14_TargetWithMedia ==
  (roles # NotRun /\ \E i \in 1..Len(df) : df[i].numeric) =>
    \/ roles = NoNumericColumns
    \/ roles.error = "" /\ roles.target_col # NoColumn /\ roles.media_cols # <<>>

\* The columns whose lower-cased name is the k-th name of the fixed list.
Matching(k) == { i \in 1..Len(df) : Lower(df[i].name) = TargetCandidates[k] }

\* The least number of a non-empty set of numbers.
Least(S) == CHOOSE i \in S : \A k \in S : i <= k

\* C15: the target is the first column named by the first name of the list
\* (sales, revenue, y, target) that names a column at all; with no such
\* column it is the first numeric column; with neither the inference fails.
C15_TargetByNameThenNumeric ==
  roles # NotRun =>
    LET named == { k \in 1..Len(TargetCandidates) : Matching(k) # {} }
        numeric == { i \in 1..Len(df) : df[i].numeric }
    IN IF named # {}
       THEN roles.error = "" /\ roles.target_col = df[Least(Matching(Least(named)))].name
       ELSE IF numeric # {}
       THEN roles.error = "" /\ roles.target_col = df[Least(numeric)].name
       ELSE roles = NoNumericColumns

\* a column named y stands before a column named Sales, and Sales is the target
C15_Witness ==
  /\ Len(df) >= 2
  /\ df[1].name = <<"y">>
  /\ df[2].name = <<"Sales">>
  /\ roles # NotRun
  /\ roles.target_col = <<"Sales">>

\* C16: the media columns are, in column order, the columns other than the
\* target whose lower-cased name ends in _spend if there is one, else the
\* numeric columns other than the target; the covariates are the numeric
\* columns that are neither. Columns sales, tv_spend, radio_spend give the
\* target sales and the media columns tv_spend, radio_spend.
C16_MediaAndCovariates ==
  (roles # NotRun /\ roles.error = "") =>
    LET t == roles.target_col
        spend == { df[i].name : i \in { k \in 1..Len(df) :
                     df[k].name # t /\ EndsWith(Lower(df[k].name), <<"_spend">>) } }
        numeric == { df[i].name : i \in { k \in 1..Len(df) : df[k].name # t /\ df[k].numeric } }
        media == IF spend # {} THEN spend ELSE numeric
    IN /\ roles.media_cols = SelectSeq(Names(df), LAMBDA c : c \in media)
       /\ roles.extra_cols = SelectSeq(Names(df), LAMBDA c : c \in numeric \ media)
       /\ Names(df) = << <<"sales">>, <<"tv", "_spend">>, <<"radio", "_spend">> >> =>
            /\ t = <<"sales">>
            /\ roles.media_cols = << <<"tv", "_spend">>, <<"radio", "_spend">> >>

\* the table of the scenario, all columns numeric, after the inference
C16_Witness ==
  /\ df = << Column(<<"sales">>, TRUE), Column(<<"tv", "_spend">>, TRUE),
             Column(<<"radio", "_spend">>, TRUE) >>
  /\ roles # NotRun
  /\ roles.media_cols = << <<"tv", "_spend">>, <<"radio", "_spend">> >>

\* The dataset file is there and every column of its table is text.
OnlyTextColumns(ds) ==
  /\ FileExists(ds)
  /\ Columns(ds) # <<>>
  /\ \A i \in 1..Len(Columns(ds)) : ~Columns(ds)[i].numeric

\* C17: a job on a dataset that has only non-numeric columns ends with the
\* error payload "No numeric columns found for target." and has written
\* nothing under DATA_DIR/models.
C17_OnlyTextColumnsError ==
  \A j \in JobIds :
    ( /\ jobs[j] # NoJob
      /\ jobs[j].status \in Terminal
      /\ mmm_lib
      /\ OnlyTextColumns(jobs[j].dataset_filename) )
    => /\ jobs[j].result = ErrorPayload("No numeric columns found for target.")
       /\ \A f \in files : f.by # j

\* ------------------------------------------------- properties: artifacts
\* The job has ended with a model id.
Trained(j) ==
  /\ jobs[j] # NoJob
  /\ jobs[j].status = "finished"
  /\ jobs[j].result.error = ""

\* C11: no step creates, replaces or removes a file in the directory of a
\* model id that a training run has returned.
C11_ArtifactsImmutable ==
  [][\A j \in JobIds, d \in dirs :
       (Trained(j) /\ jobs[j].result.model_id = ModelId(d)) =>
         { f \in files : f.dir = d } = { f \in files' : f.dir = d }]_vars

\* The plot files and the diagnostics file of a training run.
PlotFileNames == { PlotFile(k) : k \in PlotKeys }
DiagnosticsFile == ArtifactFiles[2]

\* C12: a finished job has an artifact directory, and the directory holds the
\* four plot files and the diagnostics file.
C12_FinishedHasArtifacts ==
  \A j \in JobIds :
    (jobs[j] # NoJob /\ jobs[j].status = "finished") =>
      \E d \in dirs :
        /\ jobs[j].result = ModelPayload(d)
        /\ PlotFiles(ListDir(DirPath(d))) = PlotFileNames
        /\ DiagnosticsFile \in ListDir(DirPath(d))

\* C13: the model id of a trained job and the directory of its files are
\* named after its dataset file: <name of D without extension>/<timestamp>.
C13_DirNamedAfterDataset ==
  \A j \in JobIds :
    Trained(j) =>
      \E ts \in Seconds :
        LET d == << SplitextRoot(Basename(jobs[j].dataset_filename)), ts >>
        IN /\ jobs[j].result.model_id = ModelId(d)
           /\ \A f \in files : f.by = j => f.dir = d

\* --------------------------------------------------- properties: the API
\* The identifier is not empty and has a separator.
WellFormed(m) == m # <<>> /\ \E i \in 1..Len(m) : m[i] = "/"

\* The directory the identifier names exists and holds a file whose name ends
\* in .png.
HoldsPng(m) ==
  LET path == NonEmpty(Split(m, "/"))
  IN /\ IsDir(path)
     /\ \E f \in files : DirPath(f.dir) = path /\ f.name[Len(f.name)] = "png"

\* C18: GET /mmm/plots answers 400 to an identifier that is empty or has no
\* separator, 404 to a well-formed one whose directory is missing or holds no
\* PNG file, and 200 only when the directory is there and holds a PNG file.
C18_PlotsErrors ==
  [][\A m \in PlotIds :
       (resp'.op = "plots" /\ resp'.model_id = m /\ get_mmm_plots(m)) =>
         /\ ~WellFormed(m) => resp'.code = 400
         /\ (WellFormed(m) /\ ~HoldsPng(m)) => resp'.code = 404
         /\ resp'.code = 200 <=> (WellFormed(m) /\ HoldsPng(m))]_vars

\* a listing of a directory that a run has made and that holds no plot
C18_Witness ==
  /\ resp.op = "plots"
  /\ resp.code = 404
  /\ resp.detail = "No plots found for model."
  /\ resp.model_id = <<"braidai", "/", "0">>
  /\ files # {}

\* C19: the listing of the model id of a trained job is a success with that
\* model id and the four plots of the run in the order of their file names,
\* the url of each being /data/ and the path the job result gives the plot.
C19_TrainThenList ==
  \A j \in JobIds :
    Trained(j) =>
      LET r == GetMmmPlotsResponse(jobs[j].result.model_id)
          key == << "media_effect", "posterior", "response_curves", "roi" >>
      IN /\ r.code = 200
         /\ r.model_id = jobs[j].result.model_id
         /\ Len(r.plots) = 4
         /\ \A i \in 1..4 :
              /\ r.plots[i].name = PlotFile(key[i])
              /\ r.plots[i].url = << "/", "data", "/" >> \o jobs[j].result.plots[key[i]]

\* the model id of a trained job has been listed
C19_Witness ==
  \E j \in JobIds :
    /\ Trained(j)
    /\ resp = GetMmmPlotsResponse(jobs[j].result.model_id)
    /\ resp.code = 200

\* C20: a step that changes a job or the queue is no poll and no plot
\* listing, and a step that changes a job the broker holds is a step of a
\* worker.
C20_ApiReadsJobs ==
  [][/\ (jobs' # jobs \/ queue' # queue) =>
          /\ ~ \E j \in PollIds, reachable \in BOOLEAN : job_status_endpoint(j, reachable)
          /\ ~ \E m \in PlotIds : get_mmm_plots(m)
     /\ \A j \in JobIds :
          (jobs[j] # NoJob /\ jobs'[j] # jobs[j]) => \E w \in Workers : WorkerStep(w)]_vars

\* a poll has reported a finished job, which the broker still holds beside a
\* queued one
C20_Witness ==
  /\ resp.op = "poll"
  /\ resp.status = "finished"
  /\ \E j \in JobIds : jobs[j].status = "finished" /\ StatusBody(jobs[j]) = resp
  /\ queue # <<>>

\* The names in a list of column names.
Range(names) == { names[i] : i \in 1..Len(names) }

\* C26: after a successful inference the target, the media columns and the
\* covariates are pairwise disjoint, no column is listed twice, and every
\* numeric column is the target, a media column or a covariate.
C26_RolesPartition ==
  (roles # NotRun /\ roles.error = "") =>
    LET media == Range(roles.media_cols)
        extra == Range(roles.extra_cols)
    IN /\ roles.target_col \notin media \cup extra
       /\ media \cap extra = {}
       /\ Cardinality(media) = Len(roles.media_cols)
       /\ Cardinality(extra) = Len(roles.extra_cols)
       /\ \A i \in 1..Len(df) :
            df[i].numeric => df[i].name \in { roles.target_col } \cup media \cup extra

\* a numeric target chosen by name, a media column and a covariate
C26_Witness ==
  /\ roles # NotRun
  /\ roles.error = ""
  /\ roles.media_cols # <<>>
  /\ roles.extra_cols # <<>>
  /\ \E i \in 1..Len(df) : df[i].name = roles.target_col /\ df[i].numeric /\ i > 1

\* C27: a training run that returned an error payload has left no file under
\* DATA_DIR/models.
C27_NoPartialArtifacts ==
  \A j \in JobIds :
    (jobs[j] # NoJob /\ jobs[j].status = "finished" /\ jobs[j].result.error # "") =>
      \A f \in files : f.by # j

\* The file a URL below /image_library/ refers to is in the library.
Exists(lib, url) ==
  /\ IsPrefix(<< "/", "image_library", "/" >>, url)
  /\ LET path == SubSeq(url, 4, Len(url))
     IN \E f \in lib : f.dir = Dirname(path) /\ f.name = Basename(path)

\* The ids GET /library/assets lists in the library lib, whatever the order.
ListedIds(lib) ==
  UNION { { r.urls[i].id : i \in DOMAIN r.urls } : r \in { l \in Listings(lib) : l.code = 200 } }

\* C23: a save that succeeds answers with an orig URL below
\* /image_library/orig/, GET /library/assets lists the saved image from then
\* on under the stem of that URL's file name, and no later request takes an
\* image off the listing.
C23_SavedIsListed ==
  [][ /\ \A payload \in Payloads :
           (resp'.op = "save" /\ resp'.code = 200 /\ save_image_endpoint(payload)) =>
             /\ IsPrefix(<< "/", "image_library", "/", "orig", "/" >>, resp'.urls.orig)
             /\ SplitextRoot(Basename(resp'.urls.orig)) \in ListedIds(library')
             /\ SplitextRoot(Basename(resp'.urls.orig)) \notin ListedIds(library)
      /\ ListedIds(library) \subseteq ListedIds(library')
      /\ (InDir(library, "orig") # {}) => \A l \in Listings(library') : l.code = 200 ]_vars

\* C23 witness: the listing answered with two images, both stored by a save.
C23_Witness ==
  /\ resp.op = "assets" /\ resp.code = 200 /\ Len(resp.urls) = 2
  /\ \A i \in 1..2 : Exists(library, resp.urls[i].medium)

\* C24: an edit that names an operation outside the supported ones is
\* answered with 400 and stores nothing, and no edit replaces or removes a
\* file the library already holds.
C24_UnsupportedEditRejected ==
  [][ \A operation \in Operations, payload \in { "garbage", "image" } :
        (resp'.op = "edit" /\ edit_image_endpoint(operation, payload)) =>
          /\ library \subseteq library'
          /\ (library_env.imports /\ operation \notin Supported /\ payload = "image") =>
               (resp'.code = 400 /\ library' = library) ]_vars

\* C30: every asset GET /library/assets lists has an orig, a medium and a
\* thumb URL that each refer to a file the library holds (the listing itself
\* comes in the order of the files' modification times, see AssetOrders).
C30_ListedUrlsExist ==
  \A l \in Listings(library) :
    l.code = 200 =>
      \A i \in DOMAIN l.urls :
        /\ Exists(library, l.urls[i].orig)
        /\ Exists(library, l.urls[i].medium)
        /\ Exists(library, l.urls[i].thumb)

C22_BayesianAnalyze ==
  [][ \A ds \in Datasets, llm \in Reports :
        ( /\ FileExists(ds) /\ HasTarget(ds) /\ DatasetRoles[ds].media_cols # <<>>
          /\ resp'.op = "analyze"
          /\ analyze_data(ds, "bayesian", llm) ) =>
          /\ resp'.code = 200
          /\ { "model_id", "plots", "summary" } \subseteq DOMAIN resp'.body
          /\ \E f \in files' :
               /\ ModelId(f.dir) = resp'.body.model_id
               /\ EndsWith(f.name, << ".", "png" >>) ]_vars

\* C29: once the page content is fetched analyze_brand_with_llm does not
\* raise: when the model call or the parsing of its reply fails it returns
\* a dict with an error (the 500 of /analyze-brand carries that text), and a
\* reply without a JSON object comes back as llm_response.
C29_BrandNeverRaises ==
  [][ \A request \in BrandRequests, website \in Fetched, ad \in Fetched, llm \in LlmOutcomes :
        ( /\ request.brandName # "" /\ request.userBrief # ""
          /\ resp'.op = "brand"
          /\ analyze_brand_endpoint(request, website, ad, llm) ) =>
          /\ AnalyzeBrand(llm, website, ad).raised = ""
          /\ (llm = << "raises" >> \/ (JsonMatch(llm) # <<>> /\ ~JsonLoads(JsonMatch(llm)))) =>
               (resp'.code = 500 /\ resp'.body = "LLM generation failed")
          /\ (llm # << "raises" >> /\ JsonMatch(llm) = <<>>) =>
               (resp'.code = 200 /\ resp'.body.llm_response = llm) ]_vars

\* C25: whenever GET /mmm/plots accepts an identifier and finds a directory
\* for it, the directory is DATA_DIR/models or one below it.
C25_ListsBelowModels ==
  (resp.op = "plots" /\ resp.code # 400 /\ resp.detail # "Model not found.") =>
    LET model_dir == Resolve(resp.model_id)
    IN model_dir.up = 0 /\ model_dir.path # <<>> /\ model_dir.path[1] = << "models" >>

\* The first message is a JSON object without yourSite or without prompts.
Lacks(data) ==
  data.kind = "dict" /\ (data.yourSite.type = "NoneType" \/ data.prompts.type = "NoneType")

\* The messages of the session that end it.
Terminals(sent) == { i \in 1..Len(sent) : sent[i].status \in { "complete", "error" } }

====
